---------------------------- MODULE Spec2Model ----------------------------
(***************************************************************************)
(* A model of the quote plugin (zhenxun_plugin_quote): the record store    *)
(* (model.Quote), the image directory, QuoteService (add_quote,            *)
(* delete_quote, get_random_quote, search_quote, add_tags, delete_tags,    *)
(* _select_and_record_quote, cut_sentence) and the command handlers that   *)
(* call it (upload, record, delete).                                       *)
(*                                                                         *)
(* Values.  A str | None field holds a string or None.  A text (ocr_text,  *)
(* recorded_text, a keyword, a tag) is a sequence of one-character         *)
(* strings, so that substring search, lower-casing, strip and splitting    *)
(* are computed; NoText is None in a text field.  An image is named by its *)
(* bytes (ImgData); Md5 and PHash are the two digests the handlers take of *)
(* it.  image_path is modelled by the file name inside the quote           *)
(* directory (the directory prefix is the same for every file).            *)
(***************************************************************************)
EXTENDS Integers, Sequences, FiniteSets, TLC

VARIABLES
    quotes,     \* the quote table: id -> row
    nextId,     \* the next generated primary key
    files,      \* the image files present in the quote directory
    recent,     \* QuoteService._recent_quotes: memory_key -> list of ids
    req,        \* the get_random_quote call in flight (its position and locals)
    selLog,     \* history variable: per memory_key, every selection made so far
    tasks,      \* the other service calls in flight: task -> its position and locals
    ai,         \* the class attributes of AIService
    last        \* history variable: what the last finished operation saw and returned

vars == <<quotes, nextId, files, recent, req, selLog, tasks, ai, last>>

---------------------------------------------------------------------------
(* Bounds of the model *)

\* rows ever created in one run (ids 1..MaxQuotes)
MaxQuotes == 2

\* selections recorded per run
MaxSelections == 3

\* QuoteService._max_memory_size.  The source sets 10; the selector is
\* checked for a small window, the algorithm being the same for every size.
max_memory_size == 2

---------------------------------------------------------------------------
(* Python values *)

None == "<None>"
NoText == <<None>>
NoQuote == 0

\* the truth value of a str | None
Truthy(s) == s # None /\ s # ""

\* the truth value of a text | None
TruthyText(t) == t # NoText /\ t # <<>>

Range(s) == {s[i] : i \in 1..Len(s)}

\* the orderings of a finite set
Orderings(S) ==
    {s \in [1..Cardinality(S) -> S] : \A i, j \in 1..Cardinality(S) : i # j => s[i] # s[j]}

\* list(set(..)): the members once each, in an order the language leaves
\* open.  No operation reads the position of a tag in its list, so one
\* order stands for all.
AsList(S) == CHOOSE s \in Orderings(S) : TRUE

---------------------------------------------------------------------------
(* Text operations *)

\* str.lower() on one character of the model's alphabet
LowerChar(c) ==
    CASE c = "A" -> "a"
      [] c = "B" -> "b"
      [] OTHER -> c

\* str.lower()
Lower(t) == [i \in 1..Len(t) |-> LowerChar(t[i])]

\* a in b for two strings
Contains(b, a) ==
    \E i \in 1..(Len(b) - Len(a) + 1) : SubSeq(b, i, i + Len(a) - 1) = a

\* the store's field__icontains=kw (NULL never matches)
IContains(field, kw) == field # NoText /\ Contains(Lower(field), Lower(kw))

\* the store's field__iexact=kw (NULL never matches)
IExact(field, kw) == field # NoText /\ Lower(field) = Lower(kw)

\* str.strip() for the blank of the model's alphabet
RECURSIVE Strip(_)
Strip(t) ==
    IF t = <<>> THEN <<>>
    ELSE IF Head(t) = " " THEN Strip(Tail(t))
    ELSE IF t[Len(t)] = " " THEN Strip(SubSeq(t, 1, Len(t) - 1))
    ELSE t

\* seg.cut(text): the external segmenter, taken to cut a text into its
\* maximal blank-free runs, in order
RECURSIVE SegCut(_)
SegCut(t) ==
    IF t = <<>> THEN <<>>
    ELSE IF Head(t) = " " THEN SegCut(Tail(t))
    ELSE LET n == CHOOSE k \in 1..Len(t) :
                      /\ \A i \in 1..k : t[i] # " "
                      /\ (k = Len(t) \/ t[k + 1] = " ")
         IN  <<SubSeq(t, 1, n)>> \o SegCut(SubSeq(t, n + 1, Len(t)))

\* the members of cut_sentence's remove_set that the model's alphabet can spell
remove_set ==
    {<<".">>, <<",">>, <<"!">>, <<"?">>, <<" ">>, <<"-">>, <<"_">>}

\* the length up to which cut_sentence adds the whole text as a tag
ShortTextLen == 10

\* new_words: the words cut_sentence keeps of cut_words
NewWords(cut_words) ==
    {w \in Range(cut_words) : w \notin remove_set /\ Len(Strip(w)) > 0}

\* the words cut_sentence keeps from the segmenter's output
KeptWords(text) == NewWords(SegCut(text))

\* the whole text as a tag, for a short text
ShortTextTag_strict(text) ==
    IF Len(text) < ShortTextLen /\ Strip(text) # <<>> /\ Strip(text) \notin remove_set
    THEN <<Strip(text)>>
    ELSE <<>>

ShortTextTag(text) ==
    IF Len(text) <= ShortTextLen /\ Strip(text) # <<>> /\ Strip(text) \notin remove_set
    THEN <<Strip(text)>>
    ELSE <<>>

\* QuoteService.cut_sentence when seg.cut(text) returns cut_words
cut_sentence_of(text, cut_words) ==
    IF ~TruthyText(text) THEN <<>>
    ELSE AsList(NewWords(cut_words)) \o ShortTextTag(text)

\* QuoteService.cut_sentence
cut_sentence(text) ==
    IF ~TruthyText(text) THEN <<>>
    ELSE AsList(KeptWords(text)) \o ShortTextTag(text)

---------------------------------------------------------------------------
(* Images *)

ImgData == {"A", "A2", "B", "C", "D", "X", "Y"}

\* hashlib.md5(img_data).hexdigest(): distinct bytes, distinct digests
Md5(b) ==
    CASE b = "A" -> "m1"
      [] b = "A2" -> "m2"
      [] b = "B" -> "m3"
      [] b = "C" -> "m4"
      [] b = "D" -> "m5"
      [] b = "X" -> "m6"
      [] b = "Y" -> "m7"

\* the file name the handlers give an image
ImageName(b) == Md5(b) \o ".png"

\* get_img_hash / get_img_hash_from_bytes: the perceptual hash.  "A2" is
\* "A" re-encoded (same picture, other bytes); "X" and "Y" are no readable images, on
\* which the hasher fails and "" is returned.
PHash(b) ==
    CASE b = "A" -> "h1"
      [] b = "A2" -> "h1"
      [] b = "B" -> "h2"
      [] b = "C" -> "h3"
      [] b = "D" -> "h4"
      [] b = "X" -> ""
      [] b = "Y" -> ""

---------------------------------------------------------------------------
(* The quote table *)

Ids == DOMAIN quotes

\* a new row, as Quote.get_or_create's defaults fill it
NewQuote(group_id, image_path, image_hash, ocr_text, recorded_text, tags, quoted_user_id, uploader_user_id) ==
    [group_id |-> group_id, image_path |-> image_path, image_hash |-> image_hash,
     ocr_text |-> ocr_text, recorded_text |-> recorded_text, tags |-> tags,
     quoted_user_id |-> quoted_user_id, uploader_user_id |-> uploader_user_id,
     view_count |-> 0]

\* the table with row r added under id
Insert(id, r) == [i \in Ids \cup {id} |-> IF i = id THEN r ELSE quotes[i]]

\* the table without the rows S
Remove(S) == [i \in Ids \ S |-> quotes[i]]

\* Quote.filter(group_id=.., image_hash=..)
FilterByHash(group_id, image_hash) ==
    {i \in Ids : quotes[i].group_id = group_id /\ quotes[i].image_hash = image_hash}

\* Quote.filter(group_id=.., recorded_text=.., quoted_user_id=..)
FilterByText(group_id, recorded_text, quoted_user_id) ==
    {i \in Ids : /\ quotes[i].group_id = group_id
                 /\ quotes[i].recorded_text = recorded_text
                 /\ quotes[i].quoted_user_id = quoted_user_id}

\* the row holding image_path (the column is unique)
FilterByPath(image_path) == {i \in Ids : quotes[i].image_path = image_path}

\* Quote.filter(group_id=.., [quoted_user_id=..]): the scope of a retrieval
Scope_nouser(group_id, user_id_filter) ==
    {i \in Ids : quotes[i].group_id = group_id}

Scope(group_id, user_id_filter) ==
    {i \in Ids : /\ quotes[i].group_id = group_id
                 /\ (Truthy(user_id_filter) => quotes[i].quoted_user_id = user_id_filter)}

---------------------------------------------------------------------------
(* The history variable last *)

\* what an operation records; each action overrides the fields it has
Obs(op) ==
    [op |-> op, group |-> None, user |-> None, img |-> None, text |-> NoText,
     called |-> FALSE, quote |-> NoQuote, is_new |-> FALSE,
     keyword |-> NoText, tier |-> 0, cands |-> {}, hist |-> <<>>,
     msg |-> "", missing |-> <<>>, failed |-> FALSE, done |-> <<>>,
     words |-> <<>>, tags |-> <<>>, keywords |-> <<>>, others |-> <<>>,
     calls |-> 0, admin |-> FALSE, path |-> None]

---------------------------------------------------------------------------
(* Ingestion: QuoteService.add_quote and the two handlers that call it *)

\* add_quote's first check: a row of the group with this image_hash
DuplicateByHash_skip(group_id, image_hash) == {}

DuplicateByHash(group_id, image_hash) ==
    IF Truthy(image_hash) THEN FilterByHash(group_id, image_hash) ELSE {}

\* add_quote's second check: a row of the group with this text and quoted user
DuplicateByText_skip(group_id, recorded_text, quoted_user_id) == {}

DuplicateByText(group_id, recorded_text, quoted_user_id) ==
    IF TruthyText(recorded_text) /\ Truthy(quoted_user_id)
    THEN FilterByText(group_id, recorded_text, quoted_user_id)
    ELSE {}

\* the tags add_quote derives for a new row
TagsFor(ocr_content, recorded_text) ==
    LET tags_source == IF TruthyText(ocr_content) THEN ocr_content ELSE recorded_text
    IN  IF TruthyText(tags_source) THEN cut_sentence(tags_source) ELSE <<>>

\* QuoteService.add_quote: the outcomes it can have in the current state,
\* each the returned (quote, is_new) and the table it leaves.  .first()
\* fixes no order, so any matching row may be the one returned.
add_quote(group_id, image_path, ocr_content, recorded_text, quoted_user_id, image_hash, uploader_user_id) ==
    LET byHash == DuplicateByHash(group_id, image_hash)
        byText == DuplicateByText(group_id, recorded_text, quoted_user_id)
        byPath == FilterByPath(image_path)
        tags == TagsFor(ocr_content, recorded_text)
        existing(S) == {[quote |-> i, is_new |-> FALSE, quotes |-> quotes, nextId |-> nextId] : i \in S}
    IN  IF byHash # {} THEN existing(byHash)
        ELSE IF byText # {} THEN existing(byText)
        ELSE IF byPath # {} THEN existing(byPath)
        ELSE {[quote |-> nextId, is_new |-> TRUE, nextId |-> nextId + 1,
               quotes |-> Insert(nextId, NewQuote(group_id, image_path, image_hash, ocr_content, recorded_text, tags, quoted_user_id, uploader_user_id))]}

\* the file the handler leaves behind it: the image written before add_quote
\* is removed again when add_quote did not create a row
FilesAfterIngest(image_path, is_new) ==
    IF is_new THEN files \cup {image_path} ELSE (files \cup {image_path}) \ {image_path}

\* save_img_handle: the upload command in a group session
Upload(group_id, img_data, ocr_content, user_id) ==
    LET image_hash == PHash(img_data)
        final_image_path == ImageName(img_data)
    IN  \E res \in add_quote(group_id, final_image_path, ocr_content, NoText, None, image_hash, user_id) :
            /\ quotes' = res.quotes
            /\ nextId' = res.nextId
            /\ files' = FilesAfterIngest(final_image_path, res.is_new)
            /\ last' = [Obs("upload") EXCEPT !.group = group_id, !.img = img_data, !.called = TRUE,
                             !.quote = res.quote, !.is_new = res.is_new]
            /\ UNCHANGED <<recent, req, selLog, tasks, ai>>

\* make_record_handle: the record command, after the card was rendered
MakeRecord(group_id, img_data, recorded_text, quoted_user_id, user_id) ==
    LET image_hash == PHash(img_data)
        image_path == ImageName(img_data)
        obs == [Obs("record") EXCEPT !.group = group_id, !.img = img_data,
                    !.text = recorded_text, !.user = quoted_user_id]
    IN  IF FilterByHash(group_id, image_hash) # {}
        THEN /\ last' = obs
             /\ UNCHANGED <<quotes, nextId, files, recent, req, selLog, tasks, ai>>
        ELSE \E res \in add_quote(group_id, image_path, NoText, recorded_text, quoted_user_id, image_hash, user_id) :
                    /\ quotes' = res.quotes
                /\ nextId' = res.nextId
                /\ files' = FilesAfterIngest(image_path, res.is_new)
                /\ last' = [obs EXCEPT !.called = TRUE, !.quote = res.quote, !.is_new = res.is_new]
                /\ UNCHANGED <<recent, req, selLog, tasks, ai>>

---------------------------------------------------------------------------
(* Deletion by the reply command *)

\* QuoteService.find_quote_by_basename: the rows of the group whose
\* image_path contains the name
find_quote_by_basename(group_id, image_basename) ==
    {i \in Ids : quotes[i].group_id = group_id /\ quotes[i].image_path = image_basename}

\* a check that every issuer passes
uploader_or_admin_check_any(group_id, user_id, is_admin, image_basename) == TRUE

\* uploader_or_admin_check: an admin, or the uploader of the replied quote
uploader_or_admin_check(group_id, user_id, is_admin, image_basename) ==
    \/ is_admin
    \/ \E i \in find_quote_by_basename(group_id, image_basename) :
           quotes[i].uploader_user_id = user_id

\* handle_delete_quote_standalone with QuoteService.delete_quote: an issuer
\* who does not pass the check ends the handler with finish(); for one who
\* passes the row is deleted; the handler removes no file
DeleteQuote(group_id, user_id, is_admin, image_basename) ==
    LET obs == [Obs("delete") EXCEPT !.group = group_id, !.user = user_id,
                                     !.admin = is_admin, !.path = image_basename]
    IN  /\ IF ~uploader_or_admin_check(group_id, user_id, is_admin, image_basename)
           THEN /\ quotes' = quotes
                /\ last' = [obs EXCEPT !.msg = "finish"]
           ELSE \E i \in find_quote_by_basename(group_id, image_basename) :
                    /\ quotes' = Remove({i})
                    /\ last' = [obs EXCEPT !.quote = i, !.msg = "deleted"]
        /\ UNCHANGED <<nextId, files, recent, req, selLog, tasks, ai>>

---------------------------------------------------------------------------
(* Tags *)

\* QuoteService.add_tags on a freshly loaded row: the union, as a list
add_tags(id, tags) ==
    /\ id \in Ids
    /\ quotes' = [quotes EXCEPT ![id].tags = AsList(Range(quotes[id].tags) \cup tags)]
    /\ last' = Obs("add_tags")
    /\ UNCHANGED <<nextId, files, recent, req, selLog, tasks, ai>>

\* QuoteService.delete_tags on a freshly loaded row: the difference, as a list
delete_tags(id, tags) ==
    /\ id \in Ids
    /\ quotes' = [quotes EXCEPT ![id].tags = AsList(Range(quotes[id].tags) \ tags)]
    /\ last' = Obs("delete_tags")
    /\ UNCHANGED <<nextId, files, recent, req, selLog, tasks, ai>>

---------------------------------------------------------------------------
(* AIService: the class attributes *)

_max_failures == 3
_max_retries == 3

\* the class attributes as the class statement leaves them
AIService ==
    [_initialized |-> FALSE, _enabled |-> FALSE, _api_key |-> "",
     _cache |-> [k \in {} |-> ""], _consecutive_failures |-> 0]

---------------------------------------------------------------------------
(* The anti-repeat selector *)

\* the key of the group alone
MemoryKey_group(group_id, user_id_filter) ==
    group_id \o "_all"

\* memory_key = f"{group_id}_{user_id_filter or 'all'}"
MemoryKey(group_id, user_id_filter) ==
    group_id \o "_" \o (IF Truthy(user_id_filter) THEN user_id_filter ELSE "all")

\* cls._recent_quotes.get(memory_key, [])
RecentGet(memory_key) ==
    IF memory_key \in DOMAIN recent THEN recent[memory_key] ELSE <<>>

\* the dict with memory_key set to ids
RecentSet(memory_key, ids) ==
    [k \in DOMAIN recent \cup {memory_key} |-> IF k = memory_key THEN ids ELSE recent[k]]

\* the candidates whose id is not in the history
Unseen(memory_key, cands) == {q \in cands : q \notin Range(RecentGet(memory_key))}

\* the candidates random.choice draws from
Choosable_any(memory_key, cands) == cands

Choosable(memory_key, cands) ==
    IF Unseen(memory_key, cands) # {} THEN Unseen(memory_key, cands) ELSE cands

\* the history after selected is appended and the window is cut
Recorded_nocut(memory_key, selected) == Append(RecentGet(memory_key), selected)

Recorded_poplast(memory_key, selected) ==
    LET ids == Append(RecentGet(memory_key), selected)
    IN  IF Len(ids) > max_memory_size THEN SubSeq(ids, 1, Len(ids) - 1) ELSE ids

Recorded(memory_key, selected) ==
    LET ids == Append(RecentGet(memory_key), selected)
    IN  IF Len(ids) > max_memory_size THEN Tail(ids) ELSE ids

\* the selections logged for a key so far
LogGet(memory_key) ==
    IF memory_key \in DOMAIN selLog THEN selLog[memory_key] ELSE <<>>

\* the number of selections made so far
RECURSIVE SumLen(_, _)
SumLen(f, S) ==
    IF S = {} THEN 0
    ELSE LET k == CHOOSE x \in S : TRUE IN Len(f[k]) + SumLen(f, S \ {k})

SelCount == SumLen(selLog, DOMAIN selLog)

\* QuoteService._select_and_record_quote on a non-empty list, ending the
\* operation obs: one id is drawn, recorded in the history and returned
\* (the log keeps the list it was given and the history it found)
_select_and_record_quote(memory_key, cands, obs) ==
    /\ cands # {}
    /\ \E selected \in Choosable(memory_key, cands) :
           /\ recent' = RecentSet(memory_key, Recorded(memory_key, selected))
           /\ selLog' = [k \in DOMAIN selLog \cup {memory_key} |->
                            IF k = memory_key
                            THEN Append(LogGet(k), [id |-> selected, cands |-> cands,
                                                    hist |-> RecentGet(memory_key)])
                            ELSE selLog[k]]
           /\ last' = [obs EXCEPT !.quote = selected, !.cands = cands,
                                  !.hist = RecentGet(memory_key)]

\* a retrieval that returns None
ReturnNone(obs) ==
    /\ last' = obs
    /\ UNCHANGED <<recent, selLog>>

---------------------------------------------------------------------------
(* QuoteService.get_random_quote, one action per stretch between awaits.   *)
(* A store query is executed when it is issued; its result is in req when  *)
(* the call resumes.                                                       *)

Idle == [pc |-> "idle", group |-> None, user |-> None, count |-> 0, rows |-> {}]

\* the call is made and the count query runs
GetRandomCall(group_id, user_id_filter) ==
    /\ req.pc = "idle"
    /\ req' = [Idle EXCEPT !.pc = "counted", !.group = group_id, !.user = user_id_filter,
                           !.count = Cardinality(Scope(group_id, user_id_filter))]
    /\ last' = Obs("call")
    /\ UNCHANGED <<quotes, nextId, files, recent, selLog, tasks, ai>>

\* the call resumes with the count: it returns None, or issues the query
\* for its candidates (all rows of the scope, or those not in the history)
GetRandomAfterCount ==
    /\ req.pc = "counted"
    /\ LET memory_key == MemoryKey(req.group, req.user)
           recent_ids == RecentGet(memory_key)
           all == Scope(req.group, req.user)
       IN  IF req.count = 0
           THEN /\ req' = Idle
                /\ last' = [Obs("random") EXCEPT !.group = req.group, !.user = req.user]
           ELSE /\ last' = Obs("call")
                /\ IF req.count <= max_memory_size \/ recent_ids = <<>>
                   THEN req' = [req EXCEPT !.pc = "fetched", !.rows = all]
                   ELSE req' = [req EXCEPT !.pc = "fetched_unseen", !.rows = all \ Range(recent_ids)]
    /\ UNCHANGED <<quotes, nextId, files, recent, selLog, tasks, ai>>

\* the call resumes with the rows not in the history: none is left, so the
\* history of the key is reset and all rows of the scope are queried
GetRandomReset ==
    /\ req.pc = "fetched_unseen"
    /\ req.rows = {}
    /\ recent' = RecentSet(MemoryKey(req.group, req.user), <<>>)
    /\ req' = [req EXCEPT !.pc = "fetched", !.rows = Scope(req.group, req.user)]
    /\ last' = Obs("call")
    /\ UNCHANGED <<quotes, nextId, files, selLog, tasks, ai>>

\* the call resumes with its candidates: it selects one and returns it; an
\* empty list raises ValueError, which the call answers with None
GetRandomSelect ==
    /\ req.pc \in {"fetched", "fetched_unseen"}
    /\ req.pc = "fetched_unseen" => req.rows # {}
    /\ LET obs == [Obs("random") EXCEPT !.group = req.group, !.user = req.user]
       IN  IF req.rows = {}
           THEN ReturnNone([obs EXCEPT !.msg = "ValueError"])
           ELSE _select_and_record_quote(MemoryKey(req.group, req.user), req.rows, obs)
    /\ req' = Idle
    /\ UNCHANGED <<quotes, nextId, files, tasks, ai>>

---------------------------------------------------------------------------
(* QuoteService.search_quote *)

\* some tag of the row equals the keyword, case-insensitively
TagEquals(id, keyword) ==
    \E i \in 1..Len(quotes[id].tags) : Lower(keyword) = Lower(quotes[id].tags[i])

\* some tag of the row contains the keyword, case-insensitively
TagContains(id, keyword) ==
    \E i \in 1..Len(quotes[id].tags) : Contains(Lower(quotes[id].tags[i]), Lower(keyword))

\* ocr_text or recorded_text contains the keyword, case-insensitively
TextContains(id, keyword) ==
    IContains(quotes[id].ocr_text, keyword) \/ IContains(quotes[id].recorded_text, keyword)

\* the rows the token tier matches: the conditions of the tokens are OR-ed
TokenMatches(scope, keyword_tokens) ==
    {i \in scope : \E t \in keyword_tokens : TextContains(i, Lower(t)) \/ TagContains(i, t)}

\* the tier that answers and its candidates: 1 exact text, 2 exact tag,
\* 3 partial text, 4 partial tag, 5 tokens; tier 0 with no candidate when
\* the scope is empty or nothing matches
SearchTiers_textfirst(group_id, keyword, user_id_filter) ==
    LET scope == Scope(group_id, user_id_filter)
        exact_text == {i \in scope : IExact(quotes[i].ocr_text, keyword) \/ IExact(quotes[i].recorded_text, keyword)}
        exact_tag == {i \in scope : TagEquals(i, keyword)}
        partial_text == {i \in scope : TextContains(i, keyword)}
        partial_tag == {i \in scope : TagContains(i, keyword)}
        keyword_tokens == Range(cut_sentence(keyword))
        token == TokenMatches(scope, keyword_tokens)
    IN  IF scope = {} THEN [tier |-> 0, cands |-> {}]
        ELSE IF exact_text # {} THEN [tier |-> 1, cands |-> exact_text]
        ELSE IF partial_text # {} THEN [tier |-> 3, cands |-> partial_text]
        ELSE IF exact_tag # {} THEN [tier |-> 2, cands |-> exact_tag]
        ELSE IF partial_tag # {} THEN [tier |-> 4, cands |-> partial_tag]
        ELSE IF keyword_tokens = {} THEN [tier |-> 0, cands |-> {}]
        ELSE IF token # {} THEN [tier |-> 5, cands |-> token]
        ELSE [tier |-> 0, cands |-> {}]

SearchTiers(group_id, keyword, user_id_filter) ==
    LET scope == Scope(group_id, user_id_filter)
        exact_text == {i \in scope : IExact(quotes[i].ocr_text, keyword) \/ IExact(quotes[i].recorded_text, keyword)}
        exact_tag == {i \in scope : TagEquals(i, keyword)}
        partial_text == {i \in scope : TextContains(i, keyword)}
        partial_tag == {i \in scope : TagContains(i, keyword)}
        keyword_tokens == Range(cut_sentence(keyword))
        token == TokenMatches(scope, keyword_tokens)
    IN  IF scope = {} THEN [tier |-> 0, cands |-> {}]
        ELSE IF exact_text # {} THEN [tier |-> 1, cands |-> exact_text]
        ELSE IF exact_tag # {} THEN [tier |-> 2, cands |-> exact_tag]
        ELSE IF partial_text # {} THEN [tier |-> 3, cands |-> partial_text]
        ELSE IF partial_tag # {} THEN [tier |-> 4, cands |-> partial_tag]
        ELSE IF keyword_tokens = {} THEN [tier |-> 0, cands |-> {}]
        ELSE IF token # {} THEN [tier |-> 5, cands |-> token]
        ELSE [tier |-> 0, cands |-> {}]

\* search_quote: the first tier with a match selects among its rows
SearchQuote(group_id, keyword, user_id_filter) ==
    /\ LET found == SearchTiers(group_id, keyword, user_id_filter)
           obs == [Obs("search") EXCEPT !.group = group_id, !.user = user_id_filter,
                       !.keyword = keyword, !.tier = found.tier]
       IN  IF found.cands = {}
           THEN ReturnNone(obs)
           ELSE _select_and_record_quote(MemoryKey(group_id, user_id_filter), found.cands, obs)
    /\ UNCHANGED <<quotes, nextId, files, req, tasks, ai>>

---------------------------------------------------------------------------
(* Service calls run to their end with no other task between their        *)
(* queries, on a state s = [quotes, recent, selLog, calls]: what a handler *)
(* gets from the calls it awaits one after the other.  calls counts the    *)
(* get_random_quote and search_quote calls made.                           *)

\* the state the variables hold
Here == [quotes |-> quotes, recent |-> recent, selLog |-> selLog, calls |-> 0]

\* f with key set to v
WithKey(f, key, v) == [k \in DOMAIN f \cup {key} |-> IF k = key THEN v ELSE f[k]]

\* Quote.filter(group_id=.., [quoted_user_id=..]) on s
ScopeOf(s, group_id, user_id_filter) ==
    {i \in DOMAIN s.quotes :
        /\ s.quotes[i].group_id = group_id
        /\ (Truthy(user_id_filter) => s.quotes[i].quoted_user_id = user_id_filter)}

\* cls._recent_quotes.get(memory_key, []) on s
HistOf(s, memory_key) == IF memory_key \in DOMAIN s.recent THEN s.recent[memory_key] ELSE <<>>

\* s without the row id (Model.delete; deleting a deleted row changes nothing)
DeleteOf_keep(s, id) == s

DeleteOf(s, id) == [s EXCEPT !.quotes = [i \in DOMAIN s.quotes \ {id} |-> s.quotes[i]]]

\* _select_and_record_quote on s and a non-empty list: the (quote, s) it
\* can end with
SelectOf(s, memory_key, cands) ==
    LET hist == HistOf(s, memory_key)
        unseen == cands \ Range(hist)
        pool == IF unseen # {} THEN unseen ELSE cands
        ids(q) == Append(hist, q)
        log == IF memory_key \in DOMAIN s.selLog THEN s.selLog[memory_key] ELSE <<>>
    IN  {[quote |-> q,
          s |-> [s EXCEPT
                   !.recent = WithKey(s.recent, memory_key,
                                      IF Len(ids(q)) > max_memory_size THEN Tail(ids(q)) ELSE ids(q)),
                   !.selLog = WithKey(s.selLog, memory_key,
                                      Append(log, [id |-> q, cands |-> cands, hist |-> hist]))]] :
         q \in pool}

\* get_random_quote on s; raises: the store raises at the count query,
\* which the call answers with None
get_random_quote(s, group_id, user_id_filter, raises) ==
    LET all == ScopeOf(s, group_id, user_id_filter)
        memory_key == MemoryKey(group_id, user_id_filter)
        recent_ids == HistOf(s, memory_key)
        called == [s EXCEPT !.calls = @ + 1]
    IN  IF raises \/ all = {} THEN {[quote |-> NoQuote, s |-> called]}
        ELSE IF Cardinality(all) <= max_memory_size \/ recent_ids = <<>>
        THEN SelectOf(called, memory_key, all)
        ELSE IF all \ Range(recent_ids) # {}
        THEN SelectOf(called, memory_key, all \ Range(recent_ids))
        ELSE SelectOf([called EXCEPT !.recent = WithKey(s.recent, memory_key, <<>>)], memory_key, all)

\* search_quote on the state the variables hold; raises: the store raises
\* at the count query, which the call answers with None
search_quote(group_id, keyword, user_id_filter, raises) ==
    LET found == SearchTiers(group_id, keyword, user_id_filter)
        called == [Here EXCEPT !.calls = 1]
    IN  IF raises \/ found.cands = {} THEN {[quote |-> NoQuote, s |-> called]}
        ELSE SelectOf(called, MemoryKey(group_id, user_id_filter), found.cands)

\* increment_view_count on s with no other task between its read and its save
increment_view_count(s, quote_id) ==
    IF quote_id \in DOMAIN s.quotes
    THEN [s EXCEPT !.quotes[quote_id].view_count = @ + 1]
    ELSE s

---------------------------------------------------------------------------
(* record_pool_handle: the retrieval command in a group session *)

\* safe_file_exists(quote.image_path) for a row of the table at the start
\* (a row keeps its image_path)
FileExists(fs, q) == quotes[q].image_path \in fs

\* what the first part of the handler leaves: the state, the variable
\* quote, the type of final_message_to_send (Path, UniMessage or str), the
\* row whose image_path is in the message, the text of the message and the
\* selected rows found without their file
Plan(s, quote, final, image, msg, missing) ==
    [s |-> s, quote |-> quote, final |-> final, image |-> image, msg |-> msg, missing |-> missing]

\* the selected row q has no file: it is deleted and get_random_quote is
\* called once more; a row with its file goes into a message of type found
Healed_plain(s, q, quoteVar, group_id, user_id_filter, found, notFound) ==
    {IF r.quote # NoQuote /\ FileExists(files, r.quote)
     THEN Plan(r.s, quoteVar, found, r.quote, "healed", <<q>>)
     ELSE Plan(r.s, quoteVar, notFound, NoQuote, "no_quotes",
               IF r.quote # NoQuote THEN <<q, r.quote>> ELSE <<q>>) :
     r \in get_random_quote(DeleteOf(s, q), group_id, user_id_filter, FALSE)}

Healed(s, q, quoteVar, group_id, user_id_filter, found, notFound) ==
    {IF r.quote # NoQuote /\ FileExists(files, r.quote)
     THEN Plan(r.s, quoteVar, found, r.quote, "healed", <<q>>)
     ELSE Plan(r.s, quoteVar, notFound, NoQuote, "image_missing",
               IF r.quote # NoQuote THEN <<q, r.quote>> ELSE <<q>>) :
     r \in get_random_quote(DeleteOf(s, q), group_id, user_id_filter, FALSE)}

\* the selected row q goes into a Path when it has its file
DirectOrHealed(s, q, group_id, user_id_filter, found, notFound) ==
    IF FileExists(files, q)
    THEN {Plan(s, q, "Path", q, "hit", <<>>)}
    ELSE Healed(s, q, q, group_id, user_id_filter, found, notFound)

\* lines 65-121: a user filter and a keyword
PlanUserKeyword(group_id, user_id_filter, keyword, raises) ==
    UNION {IF r.quote # NoQuote
           THEN DirectOrHealed(r.s, r.quote, group_id, user_id_filter, "UniMessage", "UniMessage")
           ELSE {IF r2.quote # NoQuote
                 THEN Plan(r2.s, r2.quote, "UniMessage", r2.quote, "miss_random", <<>>)
                 ELSE Plan(r2.s, NoQuote, "UniMessage", NoQuote, "no_quotes", <<>>) :
                 r2 \in get_random_quote(r.s, group_id, user_id_filter, FALSE)} :
           r \in search_quote(group_id, keyword, user_id_filter, raises)}

\* lines 122-156 (a user filter) and 158-178 (none): no keyword
PlanRandom(group_id, user_id_filter, raises) ==
    LET text == IF Truthy(user_id_filter) THEN "UniMessage" ELSE "str"
    IN  UNION {IF r.quote # NoQuote
               THEN DirectOrHealed(r.s, r.quote, group_id, user_id_filter, "Path", text)
               ELSE {Plan(r.s, NoQuote, text, NoQuote, "no_quotes", <<>>)} :
               r \in get_random_quote(Here, group_id, user_id_filter, raises)}

\* lines 179-234: a keyword and no user filter
PlanKeyword(group_id, keyword, raises) ==
    UNION {IF r.quote # NoQuote
           THEN DirectOrHealed(r.s, r.quote, group_id, None, "UniMessage", "str")
           ELSE UNION {IF r2.quote = NoQuote
                       THEN {Plan(r2.s, NoQuote, "str", NoQuote, "no_quotes", <<>>)}
                       ELSE IF FileExists(files, r2.quote)
                       THEN {Plan(r2.s, NoQuote, "UniMessage", r2.quote, "miss_random", <<>>)}
                       ELSE Healed(r2.s, r2.quote, NoQuote, group_id, None, "UniMessage", "str") :
                       r2 \in get_random_quote(r.s, group_id, None, FALSE)} :
           r \in search_quote(group_id, keyword, None, raises)}

\* lines 65-234
FirstPart(group_id, user_id_filter, keyword, raises) ==
    IF Truthy(user_id_filter) /\ TruthyText(keyword)
    THEN PlanUserKeyword(group_id, user_id_filter, keyword, raises)
    ELSE IF TruthyText(keyword) THEN PlanKeyword(group_id, keyword, raises)
    ELSE PlanRandom(group_id, user_id_filter, raises)

\* lines 236-290: the message is sent.  Each result is the state and the
\* files left, the row whose image went to the chat, the text and the rows
\* found without their file.  vanishes: the file of a Path is removed by
\* another task after the first part saw it.
SecondPart(p, group_id, user_id_filter, vanishes) ==
    LET out(s, fs, image, msg, missing) ==
            [s |-> s, files |-> fs, image |-> image, msg |-> msg, missing |-> missing]
    IN  IF p.final = "Path" /\ ~vanishes
        THEN {out(IF p.quote # NoQuote THEN increment_view_count(p.s, p.quote) ELSE p.s,
                  files, p.image, p.msg, p.missing)}
        ELSE IF p.final = "Path"
        THEN LET fs == files \ {quotes[p.image].image_path}
                 missing == Append(p.missing, p.image)
             IN  {IF r.quote = NoQuote
                  THEN out(r.s, fs, NoQuote, "no_available", missing)
                  ELSE IF FileExists(fs, r.quote)
                  THEN out(increment_view_count(r.s, r.quote), fs, r.quote, "healed", missing)
                  ELSE out(r.s, fs, NoQuote, "image_missing", Append(missing, r.quote)) :
                  r \in get_random_quote(DeleteOf(p.s, p.quote), group_id, user_id_filter, FALSE)}
        ELSE {out(p.s, files, IF p.image # NoQuote /\ FileExists(files, p.image) THEN p.image ELSE NoQuote,
                  p.msg, p.missing)}

\* record_pool_handle
RecordPool(group_id, user_id_filter, keyword, raises, vanishes) ==
    /\ \E p \in FirstPart(group_id, user_id_filter, keyword, raises) :
         /\ vanishes => p.final = "Path"
         /\ \E o \in SecondPart(p, group_id, user_id_filter, vanishes) :
              /\ quotes' = o.s.quotes
              /\ recent' = o.s.recent
              /\ selLog' = o.s.selLog
              /\ files' = o.files
              /\ last' = [Obs("deliver") EXCEPT !.group = group_id, !.user = user_id_filter,
                              !.keyword = keyword, !.quote = o.image, !.msg = o.msg,
                              !.missing = o.missing, !.failed = raises,
                              !.calls = o.s.calls]
    /\ UNCHANGED <<nextId, req, tasks, ai>>

---------------------------------------------------------------------------
(* The ingestion specification *)

Groups == {"1", "2"}
Users == {"7", "8"}
RecordTexts == {<<"a">>, <<"b">>}
UploadImgs == {"A", "A2"}
RecordImgs == {"A", "B"}

Init ==
    /\ quotes = <<>>
    /\ nextId = 1
    /\ files = {}
    /\ recent = [k \in {} |-> <<>>]
    /\ req = Idle
    /\ selLog = [k \in {} |-> <<>>]
    /\ tasks = [t \in {} |-> <<>>]
    /\ ai = AIService
    /\ last = Obs("init")

Next ==
    \/ \E g \in Groups, b \in UploadImgs : Upload(g, b, <<>>, "7") /\ nextId' <= MaxQuotes + 1
    \/ \E g \in Groups, b \in RecordImgs, t \in RecordTexts : MakeRecord(g, b, t, "8", "7") /\ nextId' <= MaxQuotes + 1
    \/ \E g \in Groups, b \in {ImageName(x) : x \in ImgData}, u \in Users, a \in BOOLEAN : DeleteQuote(g, u, a, b)

Spec == Init /\ [][Next]_vars

---------------------------------------------------------------------------
(* The failed hasher specification: ingestion of images the hasher cannot  *)
(* read, next to one it can                                                *)

FailImgs == {"X", "Y", "A"}

NextHashFail ==
    \/ \E g \in Groups, b \in FailImgs : Upload(g, b, <<>>, "7") /\ nextId' <= MaxQuotes + 1
    \/ \E g \in Groups, b \in FailImgs, t \in RecordTexts : MakeRecord(g, b, t, "8", "7") /\ nextId' <= MaxQuotes + 1
    \/ \E g \in Groups, b \in {ImageName(x) : x \in FailImgs}, u \in Users, a \in BOOLEAN : DeleteQuote(g, u, a, b)

SpecHashFail == Init /\ [][NextHashFail]_vars

---------------------------------------------------------------------------
(* The calls of cut_sentence while seg.cut raises.  cut_sentence has no    *)
(* handler of its own: the exception ends the try block of its caller.     *)

\* add_quote while seg.cut raises: the duplicate checks come first; with a
\* text to cut the exception is caught and (None, False) returned
add_quote_seg_raises(group_id, image_path, ocr_content, recorded_text, quoted_user_id, image_hash, uploader_user_id) ==
    LET byHash == DuplicateByHash(group_id, image_hash)
        byText == DuplicateByText(group_id, recorded_text, quoted_user_id)
        tags_source == IF TruthyText(ocr_content) THEN ocr_content ELSE recorded_text
        existing(S) == {[quote |-> i, is_new |-> FALSE, quotes |-> quotes, nextId |-> nextId] : i \in S}
    IN  IF byHash # {} THEN existing(byHash)
        ELSE IF byText # {} THEN existing(byText)
        ELSE IF TruthyText(tags_source)
        THEN {[quote |-> NoQuote, is_new |-> FALSE, quotes |-> quotes, nextId |-> nextId]}
        ELSE add_quote(group_id, image_path, ocr_content, recorded_text, quoted_user_id, image_hash, uploader_user_id)

\* save_img_handle while seg.cut raises; without a quote the handler reports
\* the failure and leaves the image it wrote
UploadSegRaises(group_id, img_data, ocr_content, user_id) ==
    LET final_image_path == ImageName(img_data)
    IN  \E res \in add_quote_seg_raises(group_id, final_image_path, ocr_content, NoText, None, PHash(img_data), user_id) :
            /\ quotes' = res.quotes
            /\ nextId' = res.nextId
            /\ files' = IF res.quote = NoQuote THEN files \cup {final_image_path}
                        ELSE FilesAfterIngest(final_image_path, res.is_new)
            /\ last' = [Obs("upload") EXCEPT !.group = group_id, !.img = img_data, !.text = ocr_content,
                             !.called = TRUE, !.quote = res.quote, !.is_new = res.is_new,
                             !.failed = TRUE]
            /\ UNCHANGED <<recent, req, selLog, tasks, ai>>

\* make_record_handle while seg.cut raises
MakeRecordSegRaises(group_id, img_data, recorded_text, quoted_user_id, user_id) ==
    LET image_hash == PHash(img_data)
        image_path == ImageName(img_data)
        obs == [Obs("record") EXCEPT !.group = group_id, !.img = img_data,
                    !.text = recorded_text, !.user = quoted_user_id, !.failed = TRUE]
    IN  IF FilterByHash(group_id, image_hash) # {}
        THEN /\ last' = obs
             /\ UNCHANGED <<quotes, nextId, files, recent, req, selLog, tasks, ai>>
        ELSE \E res \in add_quote_seg_raises(group_id, image_path, NoText, recorded_text, quoted_user_id, image_hash, user_id) :
                /\ quotes' = res.quotes
                /\ nextId' = res.nextId
                /\ files' = FilesAfterIngest(image_path, res.is_new)
                /\ last' = [obs EXCEPT !.called = TRUE, !.quote = res.quote, !.is_new = res.is_new]
                /\ UNCHANGED <<recent, req, selLog, tasks, ai>>

\* search_quote while seg.cut raises: the four tiers before the tokens
\* answer as ever; past them the exception is caught and None returned
SearchQuoteSegRaises(group_id, keyword, user_id_filter) ==
    /\ LET found == SearchTiers(group_id, keyword, user_id_filter)
           obs == [Obs("search") EXCEPT !.group = group_id, !.user = user_id_filter,
                       !.keyword = keyword, !.tier = found.tier, !.failed = TRUE]
       IN  IF found.tier \in 1..4
           THEN _select_and_record_quote(MemoryKey(group_id, user_id_filter), found.cands, obs)
           ELSE ReturnNone([obs EXCEPT !.tier = 0])
    /\ UNCHANGED <<quotes, nextId, files, req, tasks, ai>>

---------------------------------------------------------------------------
(* Stores left by earlier ingestions.  The table outlives the process and  *)
(* _recent_quotes does not: a started process finds rows and no history.   *)

\* the image of the i-th ingestion: pictures that differ in bytes and hash
NthImage(i) == <<"A", "B", "C", "D">>[i]

\* the row a successful upload of image b with OCR text ocr leaves
UploadedRow(group_id, b, ocr_content, user_id) ==
    NewQuote(group_id, ImageName(b), PHash(b), ocr_content, NoText, TagsFor(ocr_content, NoText), None, user_id)

\* the row a successful record of text t said by quoted_user_id leaves
RecordedRow(group_id, b, recorded_text, quoted_user_id, user_id) ==
    NewQuote(group_id, ImageName(b), PHash(b), NoText, recorded_text, TagsFor(NoText, recorded_text), quoted_user_id, user_id)

\* the tables n successful ingestions leave, the i-th of image NthImage(i):
\* no two rows of a group share a (recorded_text, quoted_user_id)
StoresOf(n, groups, ocrs, texts) ==
    LET rows(i) == {UploadedRow(g, NthImage(i), t, "7") : g \in groups, t \in ocrs}
                   \cup {RecordedRow(g, NthImage(i), t, "8", "7") : g \in groups, t \in texts}
    IN  {f \in [1..n -> UNION {rows(i) : i \in 1..n}] :
            /\ \A i \in 1..n : f[i] \in rows(i)
            /\ \A i, j \in 1..n :
                  (i # j /\ f[i].group_id = f[j].group_id /\ f[i].recorded_text # NoText)
                      => f[i].recorded_text # f[j].recorded_text}

\* a started process over a table of n rows
InitStore(n, groups, ocrs, texts) ==
    /\ quotes \in StoresOf(n, groups, ocrs, texts)
    /\ nextId = n + 1
    /\ files = {ImageName(NthImage(i)) : i \in 1..n}
    /\ recent = [k \in {} |-> <<>>]
    /\ req = Idle
    /\ selLog = [k \in {} |-> <<>>]
    /\ tasks = [t \in {} |-> <<>>]
    /\ ai = AIService
    /\ last = Obs("init")

---------------------------------------------------------------------------
(* The search specification: a stored table is tagged and queried *)

\* retrievals answered with a row in one run of SpecSearch
MaxSearches == 1

OcrTexts == {<<>>, <<"A", "b">>, <<"a", " ", "b", " ", "a">>}
Keywords == {<<"a">>, <<"a", " ", "b">>}
ManualTags == {<<"a", " ", "b">>}
UserFilters == {None, "8"}

InitSearch == \E n \in 0..MaxQuotes : InitStore(n, Groups, OcrTexts, RecordTexts)

NextSearch ==
    \/ \E i \in 1..MaxQuotes, t \in ManualTags : SelCount = 0 /\ req.pc = "idle" /\ add_tags(i, {t})
    \/ \E i \in 1..MaxQuotes, t \in ManualTags : SelCount = 0 /\ req.pc = "idle" /\ delete_tags(i, {t})
    \/ \E g \in Groups, k \in Keywords, u \in UserFilters : SelCount < MaxSearches /\ SearchQuote(g, k, u)
    \/ \E g \in Groups, u \in UserFilters : SelCount < MaxSearches /\ GetRandomCall(g, u)
    \/ GetRandomAfterCount
    \/ GetRandomSelect

SpecSearch == InitSearch /\ [][NextSearch]_vars

---------------------------------------------------------------------------
(* The selection specification: retrievals of one group, with deletions    *)
(* between the steps of a running get_random_quote                         *)

\* rows of the stored table
MaxPool == 3

SelectOcrs == {<<"a">>}
SelectTexts == {<<"b">>}
SelectKeyword == <<"a">>

InitSelect == \E n \in 1..MaxPool : InitStore(n, {"1"}, SelectOcrs, SelectTexts)

NextSelect ==
    \/ \E u \in UserFilters : SelCount < MaxSelections /\ GetRandomCall("1", u)
    \/ GetRandomAfterCount
    \/ GetRandomReset
    \/ GetRandomSelect
    \/ \E u \in UserFilters : SelCount < MaxSelections /\ SearchQuote("1", SelectKeyword, u)
    \/ \E i \in 1..MaxPool : DeleteQuote("1", "7", TRUE, ImageName(NthImage(i)))

SpecSelect == InitSelect /\ [][NextSelect]_vars

---------------------------------------------------------------------------
(* increment_view_count, one action per stretch between awaits *)

\* the tasks that can run a service call
TaskIds == {"t1", "t2"}

\* tasks without t
Finished(t) == [x \in DOMAIN tasks \ {t} |-> tasks[x]]

\* tasks with t at position r
Running(t, r) == [x \in DOMAIN tasks \cup {t} |-> IF x = t THEN r ELSE tasks[x]]

\* the calls that returned so far, per row (kept in last.done)
DoneOf(obs, id) == IF id \in DOMAIN obs.done THEN obs.done[id] ELSE 0

\* the call is made: Quote.get_or_none(id=quote_id) loads the row and the
\* loaded view_count is raised by 1; no row, and the call returns
IncrementRead(t, quote_id) ==
    /\ t \notin DOMAIN tasks
    /\ IF quote_id \in Ids
       THEN /\ tasks' = Running(t, [op |-> "increment", id |-> quote_id,
                                    view_count |-> quotes[quote_id].view_count + 1])
            /\ last' = [Obs("call") EXCEPT !.done = last.done]
       ELSE /\ tasks' = tasks
            /\ last' = [Obs("increment") EXCEPT !.done = last.done]
    /\ UNCHANGED <<quotes, nextId, files, recent, req, selLog, ai>>

\* the call resumes: quote.save(update_fields=["view_count"]) writes the
\* value the task holds, and the call returns
IncrementSave(t) ==
    /\ t \in DOMAIN tasks
    /\ tasks[t].op = "increment"
    /\ quotes' = IF tasks[t].id \in Ids
                 THEN [quotes EXCEPT ![tasks[t].id].view_count = tasks[t].view_count]
                 ELSE quotes
    /\ tasks' = Finished(t)
    /\ last' = [Obs("increment") EXCEPT
                   !.quote = tasks[t].id,
                   !.done = WithKey(last.done, tasks[t].id, DoneOf(last, tasks[t].id) + 1)]
    /\ UNCHANGED <<nextId, files, recent, req, selLog, ai>>

\* the increment_view_count calls made so far
RECURSIVE SumOf(_, _)
SumOf(f, S) ==
    IF S = {} THEN 0
    ELSE LET k == CHOOSE x \in S : TRUE IN f[k] + SumOf(f, S \ {k})

Increments == SumOf(last.done, DOMAIN last.done) + Cardinality(DOMAIN tasks)

---------------------------------------------------------------------------
(* The view count specification: deliveries of stored rows count their     *)
(* views in concurrent tasks                                               *)

\* increment_view_count calls in one run
MaxViews == 2

InitViews == \E n \in 1..MaxQuotes : InitStore(n, Groups, OcrTexts, RecordTexts)

NextViews ==
    \/ \E t \in TaskIds, i \in 1..MaxQuotes : Increments < MaxViews /\ i \in Ids /\ IncrementRead(t, i)
    \/ \E t \in TaskIds : IncrementSave(t)

SpecViews == InitViews /\ [][NextViews]_vars

---------------------------------------------------------------------------
(* get_random_quote calls of concurrent tasks, one action per stretch      *)
(* between awaits.  A task notes the selections other calls with its key   *)
(* made while it was in flight (others).                                   *)

\* the key of the call task t runs
KeyOf(t) == MemoryKey(tasks[t].group, tasks[t].user)

\* the call is made and the count query runs
TaskRandomCall(t, group_id, user_id_filter) ==
    /\ t \notin DOMAIN tasks
    /\ tasks' = Running(t, [op |-> "random", pc |-> "counted", group |-> group_id,
                            user |-> user_id_filter,
                            count |-> Cardinality(Scope(group_id, user_id_filter)),
                            rows |-> {}, recent_ids |-> <<>>, others |-> <<>>])
    /\ last' = Obs("call")
    /\ UNCHANGED <<quotes, nextId, files, recent, req, selLog, ai>>

\* the call resumes with the count: it returns None, or reads the history
\* and issues the query for its candidates
TaskRandomAfterCount(t) ==
    /\ t \in DOMAIN tasks
    /\ tasks[t].op = "random"
    /\ tasks[t].pc = "counted"
    /\ LET recent_ids == RecentGet(KeyOf(t))
           all == Scope(tasks[t].group, tasks[t].user)
       IN  IF tasks[t].count = 0
           THEN /\ tasks' = Finished(t)
                /\ last' = [Obs("random") EXCEPT !.group = tasks[t].group, !.user = tasks[t].user]
           ELSE /\ last' = Obs("call")
                /\ IF tasks[t].count <= max_memory_size \/ recent_ids = <<>>
                   THEN tasks' = [tasks EXCEPT ![t].pc = "fetched", ![t].rows = all,
                                               ![t].recent_ids = recent_ids]
                   ELSE tasks' = [tasks EXCEPT ![t].pc = "fetched_unseen",
                                               ![t].rows = all \ Range(recent_ids),
                                               ![t].recent_ids = recent_ids]
    /\ UNCHANGED <<quotes, nextId, files, recent, req, selLog, ai>>

\* no row is left outside the history: the history of the key is reset and
\* all rows of the scope are queried
TaskRandomReset(t) ==
    /\ t \in DOMAIN tasks
    /\ tasks[t].op = "random"
    /\ tasks[t].pc = "fetched_unseen"
    /\ tasks[t].rows = {}
    /\ recent' = RecentSet(KeyOf(t), <<>>)
    /\ tasks' = [tasks EXCEPT ![t].pc = "fetched", ![t].rows = Scope(tasks[t].group, tasks[t].user),
                              ![t].recent_ids = <<>>]
    /\ last' = Obs("call")
    /\ UNCHANGED <<quotes, nextId, files, req, selLog, ai>>

\* the rows _select_and_record_quote draws from: those of the list that are
\* not in the history as it is when the call resumes
Drawable_stale(t) ==
    IF tasks[t].rows \ Range(tasks[t].recent_ids) # {}
    THEN tasks[t].rows \ Range(tasks[t].recent_ids)
    ELSE tasks[t].rows

Drawable(t) == Choosable(KeyOf(t), tasks[t].rows)

\* the tasks left, each call with the key of t noting the selection
Noting(t, selected) ==
    LET absent == Unseen(KeyOf(t), Scope(tasks[t].group, tasks[t].user))
    IN  [x \in DOMAIN tasks \ {t} |->
            IF tasks[x].op = "random" /\ KeyOf(x) = KeyOf(t)
            THEN [tasks[x] EXCEPT !.others = Append(@, [id |-> selected, absent |-> absent])]
            ELSE tasks[x]]

\* the call resumes with its candidates: it selects one, records it and
\* returns it; an empty list raises ValueError, answered with None
TaskRandomSelect(t) ==
    /\ t \in DOMAIN tasks
    /\ tasks[t].op = "random"
    /\ tasks[t].pc \in {"fetched", "fetched_unseen"}
    /\ tasks[t].pc = "fetched_unseen" => tasks[t].rows # {}
    /\ LET memory_key == KeyOf(t)
           obs == [Obs("random") EXCEPT !.group = tasks[t].group, !.user = tasks[t].user,
                       !.others = tasks[t].others]
       IN  IF tasks[t].rows = {}
           THEN /\ last' = [obs EXCEPT !.msg = "ValueError"]
                /\ tasks' = Finished(t)
                /\ UNCHANGED <<recent, selLog>>
           ELSE \E selected \in Drawable(t) :
                   /\ recent' = RecentSet(memory_key, Recorded(memory_key, selected))
                   /\ selLog' = WithKey(selLog, memory_key,
                                    Append(LogGet(memory_key),
                                           [id |-> selected, cands |-> tasks[t].rows,
                                            hist |-> RecentGet(memory_key)]))
                   /\ tasks' = Noting(t, selected)
                   /\ last' = [obs EXCEPT !.quote = selected, !.cands = tasks[t].rows,
                                          !.hist = RecentGet(memory_key)]
    /\ UNCHANGED <<quotes, nextId, files, req, ai>>

---------------------------------------------------------------------------
(* add_tags and delete_tags on a Quote object loaded before: the caller    *)
(* loads the row, the service changes the tags of the object and saves it  *)

\* the caller loads the row into a Quote object
LoadQuote(t, id) ==
    /\ t \notin DOMAIN tasks
    /\ id \in Ids
    /\ tasks' = Running(t, [op |-> "tags", id |-> id, quote |-> quotes[id]])
    /\ last' = [Obs("load") EXCEPT !.done = last.done]
    /\ UNCHANGED <<quotes, nextId, files, recent, req, selLog, ai>>

\* quote.save() without update_fields: every field of the object is written
SaveAll(id, quote) == IF id \in Ids THEN [quotes EXCEPT ![id] = quote] ELSE quotes

\* QuoteService.add_tags(quote, tags) on the object of task t
AddTagsLoaded(t, tags) ==
    /\ t \in DOMAIN tasks
    /\ tasks[t].op = "tags"
    /\ quotes' = SaveAll(tasks[t].id, [tasks[t].quote EXCEPT !.tags = AsList(Range(@) \cup tags)])
    /\ tasks' = Finished(t)
    /\ last' = [Obs("add_tags") EXCEPT !.quote = tasks[t].id, !.done = last.done]
    /\ UNCHANGED <<nextId, files, recent, req, selLog, ai>>

\* QuoteService.delete_tags(quote, tags) on the object of task t
DeleteTagsLoaded(t, tags) ==
    /\ t \in DOMAIN tasks
    /\ tasks[t].op = "tags"
    /\ quotes' = SaveAll(tasks[t].id, [tasks[t].quote EXCEPT !.tags = AsList(Range(@) \ tags)])
    /\ tasks' = Finished(t)
    /\ last' = [Obs("delete_tags") EXCEPT !.quote = tasks[t].id, !.done = last.done]
    /\ UNCHANGED <<nextId, files, recent, req, selLog, ai>>

---------------------------------------------------------------------------
(* AIService: the class attributes, initialize, reset_service and          *)
(* recognize_image, one action per stretch between awaits.  The attempt    *)
(* runs in the executor and touches no attribute; initialize suspends      *)
(* nowhere, so an awaited reset_service runs on without another call in    *)
(* between.                                                                *)

\* the AI_ENABLED and api_key values the configuration can hold
Configs == [AI_ENABLED : BOOLEAN, api_key : {"", "key"}]

\* initialize: the configuration is read, an enabled service without a key
\* is disabled, the counter is set to 0
initialize(s, config) ==
    IF s._initialized THEN s
    ELSE [s EXCEPT !._api_key = config.api_key,
                   !._enabled = config.AI_ENABLED /\ config.api_key # "",
                   !._consecutive_failures = 0,
                   !._initialized = TRUE]

\* a reset that does nothing
reset_service_off(s, config) == s

\* reset_service: the cache is cleared and the service initialized again
reset_service(s, config) ==
    initialize([s EXCEPT !._initialized = FALSE, !._cache = [k \in {} |-> ""]], config)

\* recognize_image up to its first await: the service is initialized when
\* it is not, a disabled service returns None, a cached path returns its
\* text and sets the counter to 0; otherwise the first attempt is started
RecognizeCall(t, image_path, config) ==
    /\ t \notin DOMAIN tasks
    /\ LET s == initialize(ai, config)
           obs == [Obs("recognize") EXCEPT !.path = image_path]
       IN  IF ~s._enabled \/ s._api_key = ""
           THEN /\ ai' = s
                /\ tasks' = tasks
                /\ last' = [obs EXCEPT !.msg = "disabled"]
           ELSE IF image_path \in DOMAIN s._cache
           THEN /\ ai' = [s EXCEPT !._consecutive_failures = 0]
                /\ tasks' = tasks
                /\ last' = [obs EXCEPT !.msg = "cached", !.text = s._cache[image_path]]
           ELSE /\ ai' = s
                /\ tasks' = Running(t, [op |-> "recognize", image_path |-> image_path,
                                        retry_count |-> 0])
                /\ last' = Obs("call")
    /\ UNCHANGED <<quotes, nextId, files, recent, req, selLog>>

\* recognize_image resumes with the result of an attempt (None also stands
\* for an exception of the attempt): a text sets the counter to 0, goes to
\* the cache and is returned; after a failed attempt the next one is
\* started, and after the last one the counter grows by 1 and, at
\* _max_failures, the service is reset; None is returned
RecognizeAttempt(t, result, config) ==
    /\ t \in DOMAIN tasks
    /\ tasks[t].op = "recognize"
    /\ LET obs == [Obs("recognize") EXCEPT !.path = tasks[t].image_path,
                                            !.calls = tasks[t].retry_count + 1]
           failed == [ai EXCEPT !._consecutive_failures = @ + 1]
       IN  IF result # None
           THEN /\ ai' = [ai EXCEPT !._consecutive_failures = 0,
                                    !._cache = WithKey(@, tasks[t].image_path, result)]
                /\ tasks' = Finished(t)
                /\ last' = [obs EXCEPT !.msg = "success", !.text = result]
           ELSE IF tasks[t].retry_count + 1 < _max_retries
           THEN /\ ai' = ai
                /\ tasks' = [tasks EXCEPT ![t].retry_count = @ + 1]
                /\ last' = Obs("call")
           ELSE IF failed._consecutive_failures >= _max_failures
           THEN /\ ai' = reset_service(failed, config)
                /\ tasks' = Finished(t)
                /\ last' = [obs EXCEPT !.msg = "reset"]
           ELSE /\ ai' = failed
                /\ tasks' = Finished(t)
                /\ last' = [obs EXCEPT !.msg = "failed"]
    /\ UNCHANGED <<quotes, nextId, files, recent, req, selLog>>

---------------------------------------------------------------------------
(* Bulk deletion: QuoteService.search_quotes_for_deletion and the keyword  *)
(* branch of handle_adv_delete                                             *)

\* argument values by their Python type: a str, a list of str
Str(t) == [type |-> "str", val |-> t]
List(ts) == [type |-> "list", val |-> ts]

\* what a call gives back: the rows returned, or an exception
Returned(S) == [raised |-> FALSE, quotes |-> S]
Raised == [raised |-> TRUE, quotes |-> {}]

\* matched_quotes_set for a str keyword: the rows whose text or some tag
\* contains the keyword and, when there is none, the rows whose text or
\* some tag contains one of the keyword's tokens
DeletionMatches(group_id, keyword, user_id_filter) ==
    LET scope == Scope(group_id, user_id_filter)
        text_matches == {i \in scope : TextContains(i, keyword)}
        tag_match_ids == {i \in scope : TagContains(i, keyword)}
        matched == text_matches \cup tag_match_ids
        keyword_tokens == Range(cut_sentence(keyword))
    IN  IF matched # {} THEN matched ELSE TokenMatches(scope, keyword_tokens)

\* QuoteService.search_quotes_for_deletion: keyword.lower() stands before
\* the try, so a keyword that is no str raises out of the call
search_quotes_for_deletion(group_id, keyword, user_id_filter) ==
    IF keyword.type # "str" THEN Raised
    ELSE Returned(DeletionMatches(group_id, keyword.val, user_id_filter))

\* search_quotes_for_deletion(group_id, keyword, **{kwarg: value}): a
\* keyword argument the signature does not have raises at the call
CallSearchForDeletion(group_id, keyword, kwarg, value) ==
    IF kwarg \notin {None, "user_id_filter"} THEN Raised
    ELSE search_quotes_for_deletion(group_id, keyword, IF kwarg = None THEN None ELSE value)

\* one call of the service with a str keyword
SearchForDeletion(group_id, keyword, user_id_filter) ==
    /\ last' = [Obs("search_for_deletion") EXCEPT
                   !.group = group_id, !.user = user_id_filter, !.keyword = keyword,
                   !.cands = search_quotes_for_deletion(group_id, Str(keyword), user_id_filter).quotes]
    /\ UNCHANGED <<quotes, nextId, files, recent, req, selLog, tasks, ai>>

\* handle_adv_delete, keyword branch: the keywords of the command go to the
\* service as one list, the user option as uploader_user_id= or
\* quoted_user_id=; an exception of the call ends the handler; the rows
\* found are deleted with their files when the reply is the confirmation
\* word (here "yes")
handle_adv_delete(group_id, keywords, user_filter_type, user_filter_id, reply_text) ==
    LET res == CallSearchForDeletion(group_id, List(keywords), user_filter_type, user_filter_id)
        matched_quotes == res.quotes
        obs == [Obs("adv_delete") EXCEPT
                   !.group = group_id, !.keywords = keywords,
                   !.user = IF user_filter_type = "quoted_user_id" THEN user_filter_id ELSE None,
                   !.cands = matched_quotes, !.failed = res.raised]
    IN  IF res.raised
        THEN /\ last' = [obs EXCEPT !.msg = "raised"]
             /\ UNCHANGED <<quotes, nextId, files, recent, req, selLog, tasks, ai>>
        ELSE IF matched_quotes = {}
        THEN /\ last' = [obs EXCEPT !.msg = "not_found"]
             /\ UNCHANGED <<quotes, nextId, files, recent, req, selLog, tasks, ai>>
        ELSE IF reply_text # "yes"
        THEN /\ last' = [obs EXCEPT !.msg = "cancelled"]
             /\ UNCHANGED <<quotes, nextId, files, recent, req, selLog, tasks, ai>>
        ELSE /\ files' = files \ {quotes[i].image_path : i \in matched_quotes}
             /\ quotes' = Remove(matched_quotes)
             /\ last' = [obs EXCEPT !.msg = "deleted"]
             /\ UNCHANGED <<nextId, recent, req, selLog, tasks, ai>>

\* handle_adv_delete, clear and cleanup branches: --uploader and --quoted
\* call search_quotes_for_deletion(group_id, keywords=None, <option>=id),
\* --group calls it with the group alone, cleanup calls
\* QuoteService.find_quotes_from_left_users, which the class does not
\* have; without an option the clear branch finishes with its usage text.
\* Every call raises before the confirmation is asked for.
handle_adv_clear(group_id, option, user_filter_id) ==
    /\ last' = [Obs("adv_clear") EXCEPT
                   !.group = group_id, !.user = user_filter_id,
                   !.failed = option # None,
                   !.msg = IF option = None THEN "usage" ELSE "raised"]
    /\ UNCHANGED <<quotes, nextId, files, recent, req, selLog, tasks, ai>>

---------------------------------------------------------------------------
(* add_quote, one action per stretch between awaits *)

\* the store refuses a second row with an image_path (unique=True)
UniqueViolation_off(image_path) == FALSE

UniqueViolation(image_path) == FilterByPath(image_path) # {}

\* the call returns (quote, is_new)
AddReturn(t, quote, is_new, msg) ==
    /\ tasks' = Finished(t)
    /\ last' = [Obs("add_quote") EXCEPT
                   !.group = tasks[t].group_id, !.img = tasks[t].img_data,
                   !.text = tasks[t].recorded_text, !.user = tasks[t].quoted_user_id,
                   !.called = TRUE, !.quote = quote, !.is_new = is_new, !.msg = msg]

\* the position after the hash check
AfterHash(recorded_text, quoted_user_id) ==
    IF TruthyText(recorded_text) /\ Truthy(quoted_user_id) THEN "text" ELSE "get"

\* the call is made for an image the handler has named and hashed
AddCall(t, group_id, img_data, recorded_text, quoted_user_id) ==
    /\ t \notin DOMAIN tasks
    /\ tasks' = Running(t, [op |-> "add_quote",
                            pc |-> IF Truthy(PHash(img_data)) THEN "hash"
                                   ELSE AfterHash(recorded_text, quoted_user_id),
                            group_id |-> group_id, img_data |-> img_data,
                            recorded_text |-> recorded_text,
                            quoted_user_id |-> quoted_user_id])
    /\ last' = Obs("call")
    /\ UNCHANGED <<quotes, nextId, files, recent, req, selLog, ai>>

\* Quote.filter(group_id, image_hash).first()
AddHashCheck(t) ==
    /\ t \in DOMAIN tasks
    /\ tasks[t].op = "add_quote"
    /\ tasks[t].pc = "hash"
    /\ LET existing == FilterByHash(tasks[t].group_id, PHash(tasks[t].img_data))
       IN  IF existing # {}
           THEN \E i \in existing : AddReturn(t, i, FALSE, "hash")
           ELSE /\ tasks' = [tasks EXCEPT ![t].pc = AfterHash(tasks[t].recorded_text, tasks[t].quoted_user_id)]
                /\ last' = Obs("step")
    /\ UNCHANGED <<quotes, nextId, files, recent, req, selLog, ai>>

\* Quote.filter(group_id, recorded_text, quoted_user_id).first()
AddTextCheck(t) ==
    /\ t \in DOMAIN tasks
    /\ tasks[t].op = "add_quote"
    /\ tasks[t].pc = "text"
    /\ LET existing == FilterByText(tasks[t].group_id, tasks[t].recorded_text, tasks[t].quoted_user_id)
       IN  IF existing # {}
           THEN \E i \in existing : AddReturn(t, i, FALSE, "text")
           ELSE /\ tasks' = [tasks EXCEPT ![t].pc = "get"]
                /\ last' = Obs("step")
    /\ UNCHANGED <<quotes, nextId, files, recent, req, selLog, ai>>

\* Quote.get_or_create(image_path=..): the lookup
AddGet(t) ==
    /\ t \in DOMAIN tasks
    /\ tasks[t].op = "add_quote"
    /\ tasks[t].pc = "get"
    /\ LET existing == FilterByPath(ImageName(tasks[t].img_data))
       IN  IF existing # {}
           THEN \E i \in existing : AddReturn(t, i, FALSE, "path")
           ELSE /\ tasks' = [tasks EXCEPT ![t].pc = "create"]
                /\ last' = Obs("step")
    /\ UNCHANGED <<quotes, nextId, files, recent, req, selLog, ai>>

\* Quote.get_or_create(image_path=..): the insert; when the store refuses
\* it the row that holds the image_path is returned
AddCreate(t) ==
    /\ t \in DOMAIN tasks
    /\ tasks[t].op = "add_quote"
    /\ tasks[t].pc = "create"
    /\ LET image_path == ImageName(tasks[t].img_data)
       IN  IF UniqueViolation(image_path)
           THEN /\ \E i \in FilterByPath(image_path) : AddReturn(t, i, FALSE, "IntegrityError")
                /\ UNCHANGED <<quotes, nextId, ai>>
           ELSE /\ quotes' = Insert(nextId, NewQuote(tasks[t].group_id, image_path,
                                 PHash(tasks[t].img_data), NoText, tasks[t].recorded_text,
                                 TagsFor(NoText, tasks[t].recorded_text),
                                 tasks[t].quoted_user_id, None))
                /\ nextId' = nextId + 1
                /\ AddReturn(t, nextId, TRUE, "created")
    /\ UNCHANGED <<files, recent, req, selLog, ai>>

---------------------------------------------------------------------------
(* The concurrent ingestion specification: add_quote calls of tasks that   *)
(* interleave at their awaits                                              *)

\* rows created and add_quote calls in flight, at most
MaxAdds == 3

AddImgs == {"A", "A2"}

AddTexts == {NoText, <<"b">>}

\* the rows created so far and the add_quote calls in flight
Adds == nextId - 1 + Cardinality(DOMAIN tasks)

NextAdd ==
    \/ \E t \in TaskIds, g \in Groups, b \in AddImgs, x \in AddTexts :
           Adds < MaxAdds /\ AddCall(t, g, b, x, IF x = NoText THEN None ELSE "8")
    \/ \E t \in TaskIds : AddHashCheck(t)
    \/ \E t \in TaskIds : AddTextCheck(t)
    \/ \E t \in TaskIds : AddGet(t)
    \/ \E t \in TaskIds : AddCreate(t)

SpecAdd == Init /\ [][NextAdd]_vars

---------------------------------------------------------------------------
(* The bulk deletion specification: a stored table, manual tags, the       *)
(* service's search for deletion and the administrator's keyword command   *)

\* the keyword lists of the command
KeywordLists == {<<<<"a">>>>, <<<<"a">>, <<"b">>>>, <<<<"a", " ", "b">>>>}

\* the user option of the command
UserOptions == {None, "uploader_user_id", "quoted_user_id"}

\* the option of the clear subcommand, or the cleanup subcommand
ClearOptions == {None, "uploader_user_id", "quoted_user_id", "group", "cleanup"}

InitBulk == \E n \in 1..MaxQuotes : InitStore(n, Groups, OcrTexts, RecordTexts)

NextBulk ==
    \/ \E i \in 1..MaxQuotes, t \in ManualTags : add_tags(i, {t})
    \/ \E g \in Groups, k \in Keywords, u \in UserFilters : SearchForDeletion(g, k, u)
    \/ \E g \in Groups, ks \in KeywordLists, o \in UserOptions, r \in {"yes", "no"} :
           handle_adv_delete(g, ks, o, IF o = None THEN None ELSE "8", r)
    \/ \E g \in Groups, o \in ClearOptions :
           handle_adv_clear(g, o, IF o \in {"uploader_user_id", "quoted_user_id"} THEN "8" ELSE None)

SpecBulk == InitBulk /\ [][NextBulk]_vars

---------------------------------------------------------------------------
(* The failed segmenter specification: ingestion and search over a stored  *)
(* table while seg.cut raises                                              *)

SegFailOcrs == {<<>>, <<"a", " ", "b">>}

InitSegFail == \E n \in 0..1 : InitStore(n, Groups, OcrTexts, RecordTexts)

NextSegFail ==
    \/ \E g \in Groups, b \in {"B", "C"}, t \in SegFailOcrs : UploadSegRaises(g, b, t, "7") /\ nextId' <= MaxQuotes + 1
    \/ \E g \in Groups, b \in {"B", "C"}, t \in RecordTexts : MakeRecordSegRaises(g, b, t, "8", "7") /\ nextId' <= MaxQuotes + 1
    \/ \E g \in Groups, k \in Keywords, u \in UserFilters : SelCount < MaxSearches /\ SearchQuoteSegRaises(g, k, u)

SpecSegFail == InitSegFail /\ [][NextSegFail]_vars

---------------------------------------------------------------------------
(* The concurrent selection specification: get_random_quote calls of two   *)
(* tasks over one group, with deletions between their steps                *)

InitRace == \E n \in 2..MaxPool : InitStore(n, {"1"}, SelectOcrs, SelectTexts)

\* the selections made and the calls in flight
Calls == SelCount + Cardinality(DOMAIN tasks)

NextRace ==
    \/ \E t \in TaskIds, u \in UserFilters : Calls < MaxSelections /\ TaskRandomCall(t, "1", u)
    \/ \E t \in TaskIds : TaskRandomAfterCount(t)
    \/ \E t \in TaskIds : TaskRandomReset(t)
    \/ \E t \in TaskIds : TaskRandomSelect(t)
    \/ \E i \in 1..MaxPool : DeleteQuote("1", "7", TRUE, ImageName(NthImage(i)))

SpecRace == InitRace /\ [][NextRace]_vars

---------------------------------------------------------------------------
(* The tags and views specification: tag updates of loaded objects next to *)
(* increment_view_count calls                                              *)

InitTagViews == InitStore(1, {"1"}, SelectOcrs, SelectTexts)

NextTagViews ==
    \/ \E t \in TaskIds : Increments < MaxViews /\ IncrementRead(t, 1)
    \/ \E t \in TaskIds : IncrementSave(t)
    \/ \E t \in TaskIds : LoadQuote(t, 1)
    \/ \E t \in TaskIds, x \in ManualTags : AddTagsLoaded(t, {x})
    \/ \E t \in TaskIds, x \in ManualTags : DeleteTagsLoaded(t, {x})

SpecTagViews == InitTagViews /\ [][NextTagViews]_vars

---------------------------------------------------------------------------
(* The recognition specification: two calls of recognize_image in flight,  *)
(* on two image paths, every attempt failing or returning a text           *)

\* the image paths recognized
AIPaths == {"m1.png", "m2.png"}

\* what an attempt gives: None, or the text read
AIResults == {None, "text"}

NextAI ==
    \/ \E t \in TaskIds, p \in AIPaths, c \in Configs : RecognizeCall(t, p, c)
    \/ \E t \in TaskIds, r \in AIResults, c \in Configs : RecognizeAttempt(t, r, c)

SpecAI == Init /\ [][NextAI]_vars

---------------------------------------------------------------------------
(* The tag extraction specification: cut_sentence on texts around the      *)
(* short-text length, for the outputs a segmenter may give                 *)

\* the longest text cut
MaxTextLen == 11

\* n times the character c
Rep(c, n) == [i \in 1..n |-> c]

\* the texts cut: runs of a letter, words, punctuation and blanks, bare or
\* with blanks around them
TagCores ==
    {Rep("a", n) : n \in 0..MaxTextLen} \cup
    {Rep("a", n) \o <<" ", "b">> : n \in 1..MaxTextLen} \cup
    {<<".">>, <<"?">>, <<" ">>, <<"A">>, <<".", "a">>}

TagTexts ==
    {t \in {Rep(" ", l) \o c \o Rep(" ", r) : c \in TagCores, l \in 0..1, r \in 0..1} :
        Len(t) <= MaxTextLen}

\* what seg.cut may return for a text: the blank-free runs, nothing, the
\* text in one piece, pieces that are not the text, removed words only
SegOutputs(text) ==
    {SegCut(text), <<>>, <<text>>, <<<<"a">>, <<"a">>>>, <<<<".">>, <<" ">>>>, <<<<"b">>, <<"a">>>>}

\* one call of cut_sentence
CutSentence(text, cut_words) ==
    /\ last' = [Obs("cut_sentence") EXCEPT
                   !.text = text, !.words = cut_words,
                   !.tags = cut_sentence_of(text, cut_words)]
    /\ UNCHANGED <<quotes, nextId, files, recent, req, selLog, tasks, ai>>

NextTags == \E text \in TagTexts : \E cut_words \in SegOutputs(text) : CutSentence(text, cut_words)

SpecTags == Init /\ [][NextTags]_vars

---------------------------------------------------------------------------
(* The delivery specification: retrieval commands in one group, over a     *)
(* stored table some of whose image files are gone (a duplicate upload     *)
(* removes the file of the stored row; files are removed by hand)          *)

DeliverKeywords == {<<>>, <<"a">>, <<"b">>}

InitDeliver ==
    \E n \in 1..MaxPool :
        /\ quotes \in StoresOf(n, {"1"}, SelectOcrs, SelectTexts)
        /\ nextId = n + 1
        /\ files \in SUBSET {ImageName(NthImage(i)) : i \in 1..n}
        /\ recent = [k \in {} |-> <<>>]
        /\ req = Idle
        /\ selLog = [k \in {} |-> <<>>]
        /\ tasks = [t \in {} |-> <<>>]
        /\ ai = AIService
        /\ last = Obs("init")

NextDeliver ==
    \E u \in UserFilters, k \in DeliverKeywords, raises \in BOOLEAN, vanishes \in BOOLEAN :
        SelCount < MaxSelections /\ RecordPool("1", u, k, raises, vanishes)

SpecDeliver == InitDeliver /\ [][NextDeliver]_vars

---------------------------------------------------------------------------
(* Claims about ingestion, of Spec *)

\* the last step was an ingestion that reached add_quote
Ingested == last.op \in {"upload", "record"} /\ last.called

\* C1: once a row with a non-empty image_hash h is stored in group g, an
\* add_quote for g with hash h stores nothing, returns that row with
\* is_new = FALSE, and the group holds exactly one row with hash h.
C1_HashDedupIdempotent ==
    [][(Ingested' /\ Truthy(PHash(last'.img)) /\ FilterByHash(last'.group, PHash(last'.img)) # {})
        => /\ quotes' = quotes
           /\ ~last'.is_new
           /\ FilterByHash(last'.group, PHash(last'.img)) = {last'.quote}]_vars

\* C1 witness: an upload of other bytes of the same picture was answered
\* with the row stored before
C1_Witness ==
    /\ last.op = "upload" /\ last.called /\ ~last.is_new
    /\ last.quote \in FilterByHash(last.group, PHash(last.img))
    /\ quotes[last.quote].image_path # ImageName(last.img)

\* C2: once a row with a non-empty (recorded_text, quoted_user_id) is stored
\* in group g, a record ingestion for g with the same pair stores nothing and
\* add_quote returns that row with is_new = FALSE, whatever the image is; the
\* group holds exactly one row with the pair.
C2_TextDedupIdempotent ==
    [][(last'.op = "record" /\ TruthyText(last'.text) /\ Truthy(last'.user)
            /\ FilterByText(last'.group, last'.text, last'.user) # {})
        => /\ quotes' = quotes
           /\ last'.called => (~last'.is_new /\ FilterByText(last'.group, last'.text, last'.user) = {last'.quote})
           /\ Cardinality(FilterByText(last'.group, last'.text, last'.user)) = 1]_vars

\* C2 witness: a record ingestion with another image (other hash, other
\* path) was answered with the row that holds the same text and quoted user
C2_Witness ==
    /\ last.op = "record" /\ last.called /\ ~last.is_new
    /\ last.quote \in FilterByText(last.group, last.text, last.user)
    /\ quotes[last.quote].image_path # ImageName(last.img)
    /\ quotes[last.quote].image_hash # PHash(last.img)

\* C3: duplicate detection is scoped to the group: an ingestion for group g
\* that finds neither the hash nor the (text, quoted user) in g creates a row
\* of g and returns is_new = TRUE, and add_quote never returns a row of
\* another group.
C3_DuplicateScopedToGroup ==
    [][Ingested' =>
        /\ quotes'[last'.quote].group_id = last'.group
        /\ (/\ DuplicateByHash(last'.group, PHash(last'.img)) = {}
            /\ DuplicateByText(last'.group, last'.text, last'.user) = {})
           => last'.is_new]_vars

\* C4: an ingestion request that ends as a duplicate (is_new = FALSE) leaves
\* the image files as they were.
C4_DuplicateKeepsFiles ==
    [][(last'.op \in {"upload", "record"} /\ ~last'.is_new) => files' = files]_vars

---------------------------------------------------------------------------
(* Claims about search and scope, of SpecSearch *)

\* the last step was a search_quote call that returned
Searched == last.op = "search"

\* the rows of the search's scope whose text contains the whole keyword
Containing == {i \in Scope(last.group, last.user) : TextContains(i, last.keyword)}

\* the rows of the search's scope whose text equals the keyword
Equalling ==
    {i \in Scope(last.group, last.user) :
        IExact(quotes[i].ocr_text, last.keyword) \/ IExact(quotes[i].recorded_text, last.keyword)}

\* the rows of the search's scope with a tag equal to the keyword
TaggedAs == {i \in Scope(last.group, last.user) : TagEquals(i, last.keyword)}

\* the term, or a token of it, occurs in the row's texts or tags
TermOccurs(i, term) ==
    \E t \in {term} \cup Range(cut_sentence(term)) : TextContains(i, t) \/ TagContains(i, t)

\* the rows of the search's scope that some phase matches
MatchingAny ==
    {i \in Scope(last.group, last.user) :
        \/ TextContains(i, last.keyword)
        \/ TagContains(i, last.keyword)
        \/ \E t \in Range(cut_sentence(last.keyword)) : TermOccurs(i, t)}

\* C5 as stated: when some row of the scope has a text that contains the
\* whole keyword, search_quote returns one of exactly those rows; when no
\* phase matches a row, it returns nothing.
C5_ContainingTextFirst ==
    Searched =>
        /\ Containing # {} => last.quote \in Containing
        /\ MatchingAny = {} => last.quote = NoQuote

\* C5 amended: a row whose text equals the keyword is returned when there is
\* one; else a row with a tag equal to the keyword when there is one,
\* whatever its text; else a row whose text contains the keyword when there
\* is one; and nothing when no phase matches a row.
C5_EqualTextThenEqualTag ==
    Searched =>
        /\ Equalling # {} => last.quote \in Equalling
        /\ (Equalling = {} /\ TaggedAs # {}) => last.quote \in TaggedAs
        /\ (Equalling = {} /\ TaggedAs = {} /\ Containing # {}) => last.quote \in Containing
        /\ MatchingAny = {} => last.quote = NoQuote

\* C5 witness: a row tagged with the keyword was returned though its text
\* does not contain the keyword and another row's text does
C5_Witness ==
    /\ Searched
    /\ Containing # {}
    /\ last.quote \in TaggedAs \ Containing

\* C6: a row returned for a keyword of several blank-separated terms has
\* every term (the term or one of its tokens) in its texts or tags.
C6_EveryTermOccurs ==
    (Searched /\ last.quote # NoQuote) =>
        \A term \in Range(SegCut(last.keyword)) : TermOccurs(last.quote, term)

\* C7: a row returned by get_random_quote or search_quote is of the
\* requested group and, when a user filter is given, of that quoted user.
C7_RetrievalScoped ==
    (last.op \in {"search", "random"} /\ last.quote # NoQuote) =>
        /\ last.quote \in Ids
        /\ quotes[last.quote].group_id = last.group
        /\ Truthy(last.user) => quotes[last.quote].quoted_user_id = last.user

\* C7 witness: a filtered search answered in the token tier while a row of
\* the group quoted from nobody matches a token too
C7_Witness ==
    /\ Searched /\ Truthy(last.user) /\ last.tier = 5 /\ last.quote # NoQuote
    /\ \E j \in Ids :
           /\ quotes[j].group_id = last.group
           /\ quotes[j].quoted_user_id # last.user
           /\ j \in TokenMatches({j}, Range(cut_sentence(last.keyword)))

---------------------------------------------------------------------------
(* Claims about the anti-repeat selector, of SpecSelect *)

\* the ids logged for a key, in order of selection
LogIds(log) == [i \in 1..Len(log) |-> log[i].id]

\* s is the end of t
IsSuffix(s, t) == Len(s) <= Len(t) /\ s = SubSeq(t, Len(t) - Len(s) + 1, Len(t))

\* the last n entries of t (all of t when it has fewer)
LastN(t, n) == IF Len(t) <= n THEN t ELSE SubSeq(t, Len(t) - n + 1, Len(t))

\* C8: when some candidate is not in the key's history, the selected row is
\* not in the history; a row of the history is selected only when every
\* candidate is in it, and the selected row is always a candidate.
C8_PrefersUnseen ==
    (last.op \in {"search", "random"} /\ last.cands # {}) =>
        /\ last.quote \in last.cands
        /\ (last.cands \ Range(last.hist) # {}) => last.quote \notin Range(last.hist)

\* C8 witness: of candidates in and out of the history, one out of it was
\* selected
C8_Witness ==
    /\ last.op \in {"search", "random"}
    /\ last.cands \cap Range(last.hist) # {}
    /\ last.quote \in last.cands \ Range(last.hist)

\* C9 as stated: every history has at most N entries and is exactly the last
\* min(N, number of selections for the key) selected ids, in order.
C9_LastSelections ==
    \A k \in DOMAIN recent :
        /\ Len(recent[k]) <= max_memory_size
        /\ recent[k] = LastN(LogIds(LogGet(k)), max_memory_size)

\* C9 amended: every history has at most N entries and is the end of the
\* key's selected ids, in order; a step leaves it, or appends the selected
\* id (evicting the oldest entry when N is exceeded), or is the reset of
\* get_random_quote, whose query for rows outside the history returned none.
C9_SuffixOfSelections ==
    [][\A k \in DOMAIN recent' :
        LET old == RecentGet(k)
            new == recent'[k]
            oldLog == LogGet(k)
            newLog == IF k \in DOMAIN selLog' THEN selLog'[k] ELSE <<>>
            appended == Append(old, newLog[Len(newLog)].id)
        IN  /\ Len(new) <= max_memory_size
            /\ IsSuffix(new, LogIds(newLog))
            /\ \/ new = old /\ newLog = oldLog
               \/ /\ Len(newLog) = Len(oldLog) + 1
                  /\ new = IF Len(appended) > max_memory_size THEN Tail(appended) ELSE appended
               \/ /\ new = <<>> /\ newLog = oldLog
                  /\ req.pc = "fetched_unseen" /\ req.rows = {}
                  /\ k = MemoryKey(req.group, req.user)]_vars

\* C9 witness: after a reset and one more selection the history is shorter
\* than both N and the number of the key's selections
C9_Witness ==
    \E k \in DOMAIN recent :
        /\ recent[k] # <<>>
        /\ Len(recent[k]) < max_memory_size
        /\ Len(recent[k]) < Len(LogGet(k))
        /\ IsSuffix(recent[k], LogIds(LogGet(k)))

\* the selector was handed the candidates C, as they are or without the
\* rows of the history it found
OverCandidates(e, C) == e.cands = C \/ e.cands = C \ Range(e.hist)

\* the smaller of two numbers
Min(a, b) == IF a <= b THEN a ELSE b

\* C10: for one key and one candidate set C, the first min(|C|, N+1)
\* selections from the empty history are pairwise distinct, and when
\* |C| > N no id is selected twice within N+1 consecutive selections.
C10_NoRepeatInWindow ==
    \A k \in DOMAIN selLog : \A C \in SUBSET (1..(nextId - 1)) :
        LET log == selLog[k]
            over(i, j) == \A m \in i..j : OverCandidates(log[m], C)
        IN  /\ \A i, j \in 1..Len(log) :
                  (i < j /\ j <= Min(Cardinality(C), max_memory_size + 1) /\ over(1, j))
                      => log[i].id # log[j].id
            /\ Cardinality(C) > max_memory_size =>
                  \A i, j \in 1..Len(log) :
                      (i < j /\ j - i <= max_memory_size /\ over(i, j)) => log[i].id # log[j].id

\* C10 witness: N+1 selections of one key over one set of more than N
\* candidates, the later ones through get_random_quote's query for the rows
\* outside the history, returned N+1 different rows
C10_Witness ==
    \E k \in DOMAIN selLog : \E C \in SUBSET (1..(nextId - 1)) :
        LET log == selLog[k]
        IN  /\ Cardinality(C) > max_memory_size
            /\ Len(log) = max_memory_size + 1
            /\ \A m \in 1..Len(log) : OverCandidates(log[m], C)
            /\ log[Len(log)].cands # C
            /\ Cardinality({log[m].id : m \in 1..Len(log)}) = max_memory_size + 1

---------------------------------------------------------------------------
(* Claims about deletion and tags, of Spec *)

\* C14: after the reply command deleted a quote, the row is no longer in
\* the store and its image file no longer exists.
C14_DeleteReleasesImage ==
    [][last'.op = "delete" =>
        \A i \in DOMAIN quotes \ DOMAIN quotes' : quotes[i].image_path \notin files']_vars

\* C29: the reply command removes a row only when its issuer passes the
\* admin check or is the uploader of the replied row of the group, and it
\* removes that row alone; for any other issuer the store stays as it was.
C29_DeleteAuthorized ==
    [][last'.op = "delete" =>
        /\ \A i \in DOMAIN quotes \ DOMAIN quotes' :
               /\ quotes[i].group_id = last'.group
               /\ quotes[i].image_path = last'.path
               /\ last'.admin \/ quotes[i].uploader_user_id = last'.user
        /\ Cardinality(DOMAIN quotes \ DOMAIN quotes') <= 1
        /\ (~last'.admin /\ \A i \in Ids :
                (quotes[i].group_id = last'.group /\ quotes[i].image_path = last'.path)
                    => quotes[i].uploader_user_id # last'.user)
               => quotes' = quotes]_vars

\* C29 witness: a user who is no admin replied to a row that another user
\* uploaded, and the row is still stored
C29_Witness ==
    /\ last.op = "delete" /\ ~last.admin /\ last.msg = "finish"
    /\ \E i \in Ids :
           /\ quotes[i].group_id = last.group
           /\ quotes[i].image_path = last.path
           /\ quotes[i].uploader_user_id # last.user

\* the list holds no string twice
NoDuplicates(tags) == \A i, j \in 1..Len(tags) : tags[i] = tags[j] => i = j

\* C17: the tags of every stored row hold no string twice.
C17_TagsAreSet == \A i \in Ids : NoDuplicates(quotes[i].tags)

---------------------------------------------------------------------------
(* Claims about delivery, of SpecDeliver *)

\* the step is a retrieval command that sent the image of a stored row
Delivered == last'.op = "deliver" /\ last'.quote # NoQuote

\* C11: a retrieval command that sends the image of the stored row r adds
\* exactly 1 to r's view_count and changes no other row's view_count.
C11_DeliveryCounted ==
    [][Delivered =>
        /\ quotes'[last'.quote].view_count = quotes[last'.quote].view_count + 1
        /\ \A i \in DOMAIN quotes' \ {last'.quote} :
               quotes'[i].view_count = quotes[i].view_count]_vars

\* the rows of the command's scope left in the store
ScopeLeft == ScopeOf([quotes |-> quotes'], last'.group, last'.user)

C20_StoreFailureDistinct ==
    (last.op = "deliver" /\ last.failed) =>
        /\ last.msg \notin {"no_quotes", "miss_random"}
        /\ last.quote = NoQuote

---------------------------------------------------------------------------
(* Claims about the view count, of SpecViews *)

\* C12: when the increment_view_count calls made for a row have all
\* returned, whatever their interleaving, the row's view_count is higher
\* than at the start (0) by the number of the calls.
C12_NoLostIncrement ==
    (DOMAIN tasks = {} /\ last.op = "increment") =>
        \A i \in Ids : quotes[i].view_count = DoneOf(last, i)

---------------------------------------------------------------------------
(* Claims about tag extraction, of SpecTags *)

\* C18: for a text of at most 10 characters whose trimmed form is not empty
\* and not a removed word, the tags cut_sentence returns hold the trimmed
\* text, whatever the segmenter returned.
C18_ShortTextIsTag ==
    (/\ last.op = "cut_sentence"
     /\ Len(last.text) <= 10
     /\ Strip(last.text) # <<>>
     /\ Strip(last.text) \notin remove_set)
        => Strip(last.text) \in Range(last.tags)

\* C18 witness: a text of 10 characters, blanks around it, that is none of
\* the words the segmenter returned, is a tag
C18_Witness ==
    /\ last.op = "cut_sentence"
    /\ Len(last.text) = 10
    /\ Strip(last.text) # last.text
    /\ Strip(last.text) \notin Range(last.words)
    /\ Strip(last.text) \in Range(last.tags)

---------------------------------------------------------------------------
(* Claims about concurrent ingestion, of SpecAdd *)

\* C19: no two stored rows have the same image_path, however the add_quote
\* calls interleave and whatever groups they are made for.
C19_ImagePathUnique ==
    \A i, j \in Ids : quotes[i].image_path = quotes[j].image_path => i = j

\* C19 witness: two calls for the same bytes in different groups both found
\* no row; the second insert was refused and the call returned the other
\* group's row
C19_Witness ==
    /\ last.op = "add_quote"
    /\ last.msg = "IntegrityError"
    /\ last.quote \in Ids
    /\ quotes[last.quote].group_id # last.group
    /\ quotes[last.quote].image_path = ImageName(last.img)

---------------------------------------------------------------------------
(* Claims about bulk deletion, of SpecBulk *)

\* C15: for the list of keywords of the administrator's command, the search
\* for deletion returns every row of the scope whose ocr_text or
\* recorded_text contains at least one of the keywords.
C15_BulkMatchIsUnion ==
    [][last'.op = "adv_delete" =>
        {i \in Scope(last'.group, last'.user) :
            \E k \in Range(last'.keywords) : TextContains(i, k)} \subseteq last'.cands]_vars

\* C16: every row the search for deletion returns has the keyword in its
\* ocr_text or recorded_text; a tag or a token of the keyword does not make
\* a row match.
C16_BulkMatchPrecise ==
    last.op = "search_for_deletion" =>
        \A i \in last.cands : i \in Ids /\ TextContains(i, last.keyword)

\* C26: a retrieval command makes at most 3 selection calls, and one that
\* found a selected row without its file ends with the image of a stored
\* row that has its file or with a message that is not the 'no records'
\* message.
C26_BoundedHealing ==
    last.op = "deliver" =>
        /\ last.calls <= 3
        /\ last.missing # <<>> =>
              \/ last.quote \in Ids /\ quotes[last.quote].image_path \in files
              \/ last.quote = NoQuote /\ last.msg \in {"image_missing", "no_available"}

\* C26 witness: the third selection call of the command returned a row
\* without its file too, and the command ended with the message
C26_Witness ==
    /\ last.op = "deliver"
    /\ last.calls = 3
    /\ Len(last.missing) >= 2
    /\ last.quote = NoQuote
    /\ last.msg = "image_missing"

\* the history keys whose list a step changes
ChangedKeys ==
    {k \in DOMAIN recent \cup DOMAIN recent' :
        RecentGet(k) # (IF k \in DOMAIN recent' THEN recent'[k] ELSE <<>>)}

\* C27: two different (group, user filter) scopes have different history
\* keys, and a step of a selection changes the history of no key but the
\* one of its own scope.
C27_HistoryIsolation ==
    [][/\ \A g1 \in Groups, g2 \in Groups :
            \A u1 \in UserFilters \cup Users, u2 \in UserFilters \cup Users :
                <<g1, u1>> # <<g2, u2>> => MemoryKey(g1, u1) # MemoryKey(g2, u2)
       /\ ChangedKeys \subseteq
              IF last'.op = "search" THEN {MemoryKey(last'.group, last'.user)}
              ELSE IF req.pc # "idle" THEN {MemoryKey(req.group, req.user)}
              ELSE {}]_vars

\* C27 witness: a selection with a user filter was recorded under its key
\* while the history of the group's unfiltered scope, which has other
\* entries, stayed as it was
C27_Witness ==
    /\ last.op \in {"random", "search"}
    /\ last.quote # NoQuote
    /\ last.user = "8"
    /\ RecentGet(MemoryKey(last.group, None)) # <<>>
    /\ RecentGet(MemoryKey(last.group, "8")) # RecentGet(MemoryKey(last.group, None))
    /\ last.quote = RecentGet(MemoryKey(last.group, "8"))[Len(RecentGet(MemoryKey(last.group, "8")))]

---------------------------------------------------------------------------
(* Claims about the failed hasher, of SpecHashFail *)

\* C21: an ingestion whose hashing failed (empty hash) makes no duplicate
\* check by hash: when no row of the group has its recorded_text and quoted
\* user and no row has its image_path, it stores a new row.
C21_NoHashNoHashCheck ==
    [][(/\ last'.op \in {"upload", "record"}
        /\ ~Truthy(PHash(last'.img))
        /\ DuplicateByText(last'.group, last'.text, last'.user) = {}
        /\ FilterByPath(ImageName(last'.img)) = {})
           => /\ last'.called /\ last'.is_new
              /\ last'.quote \in DOMAIN quotes' \ DOMAIN quotes]_vars

---------------------------------------------------------------------------
(* Claims about the failed segmenter, of SpecSegFail *)

\* C22: while the segmenter raises, an ingestion that reaches add_quote and
\* finds no duplicate stores a new row without tags and returns it as new,
\* and search_quote returns a row exactly when the keyword equals or is
\* contained in a text or a tag of a row of the scope.
C22_SegmenterFailureNotFatal ==
    [][/\ (/\ last'.op \in {"upload", "record"} /\ last'.failed /\ last'.called
           /\ DuplicateByHash(last'.group, PHash(last'.img)) = {}
           /\ DuplicateByText(last'.group, last'.text, last'.user) = {}
           /\ FilterByPath(ImageName(last'.img)) = {})
              => /\ last'.is_new
                 /\ last'.quote \in DOMAIN quotes' \ DOMAIN quotes
                 /\ quotes'[last'.quote].tags = <<>>
       /\ (last'.op = "search" /\ last'.failed)
              => (last'.quote # NoQuote <=>
                    \E i \in Scope(last'.group, last'.user) :
                        TextContains(i, last'.keyword) \/ TagContains(i, last'.keyword))]_vars

---------------------------------------------------------------------------
(* Claims about concurrent selection, of SpecRace *)

---------------------------------------------------------------------------
(* Claims about the selection's candidate list, of SpecSelect *)

\* C24: no call of get_random_quote or search_quote hands an empty list to
\* _select_and_record_quote: ValueError is never raised, whatever rows are
\* deleted between the steps of a call.
C24_CandidatesNonEmpty == last.msg # "ValueError"

---------------------------------------------------------------------------
(* Claims about the recognition service, of SpecAI *)

\* C30: whenever no step of recognize_image is running, the counter
\* _consecutive_failures is below _max_failures: a success and a cache hit
\* set it to 0, a call whose attempts all failed raises it by 1, and when
\* that makes it _max_failures the service is reset, which clears the cache
\* and sets the counter to 0; so also with two calls in flight.
C30_FailuresBelowMax ==
    [][/\ ai._consecutive_failures < _max_failures
       /\ ai'._consecutive_failures < _max_failures
       /\ last'.op = "recognize" =>
             /\ last'.msg \in {"success", "cached"} => ai'._consecutive_failures = 0
             /\ last'.msg \in {"failed", "reset"} => last'.calls = _max_retries
             /\ last'.msg = "failed" =>
                   ai'._consecutive_failures = ai._consecutive_failures + 1
             /\ last'.msg = "reset" =>
                   /\ ai._consecutive_failures + 1 = _max_failures
                   /\ ai'._consecutive_failures = 0
                   /\ DOMAIN ai'._cache = {}
       /\ last'.op = "call" => ai'._consecutive_failures = ai._consecutive_failures]_vars

\* C30 witness: a call failed for the third time in a row while the other
\* call was in flight; the service was reset, its counter is 0 and the
\* cache is empty
C30_Witness ==
    /\ last.op = "recognize" /\ last.msg = "reset"
    /\ DOMAIN tasks # {}
    /\ ai._initialized /\ ai._enabled
    /\ ai._consecutive_failures = 0
    /\ DOMAIN ai._cache = {}

---------------------------------------------------------------------------
(* Claims about tags and views, of SpecTagViews *)

\* C25: the stored view_count of a row never decreases, however
\* increment_view_count, add_tags and delete_tags on the row interleave.
C25_ViewCountMonotone ==
    [][\A i \in DOMAIN quotes \cap DOMAIN quotes' :
           quotes'[i].view_count >= quotes[i].view_count]_vars

===========================================================================
